---- MODULE Spec2Model ----
(***************************************************************************)
(* QuestionApp (src/question_app.py): the paragraph parser                 *)
(* (QuestionApp.parse_questions_with_images), the renumbering done by      *)
(* every encoder, the export worker (ExportWorker.run and its encoders)    *)
(* and the launching of exports from the main window                      *)
(* (QuestionApp.export_questions).                                         *)
(*                                                                         *)
(* Text is a sequence of symbols.  The reserved tokens are single symbols: *)
(*   "S" = ---START---   "E" = ---END---   "B" = [BILD]                    *)
(*   "A" = Aufgabe       "a" = aufgabe (any other casing of the label)     *)
(*   "_" = a blank       "\n" = a line break   "7", "9", ... = digits      *)
(*   "x" = any other character                                             *)
(***************************************************************************)
EXTENDS Integers, Sequences, FiniteSets, TLC

VARIABLES
    \* ---- parse_questions_with_images ----
    pc,                 \* "parsing" while the for loop runs, "done" after it
    i,                  \* number of paragraphs consumed so far
    text,               \* paragraph.text of the paragraph just consumed
    blips,              \* the blips extract_images_from_paragraph went through
                        \* in this iteration, <<>> if it was not called
    in_question,
    text_buffer,        \* list of lines
    current_question,   \* dict: text, images (a reference to a list object)
    questions,          \* list of dicts, each holding a reference to its list
    heap,               \* the list objects: heap[r] is the content of list r
    log,                \* the last warning the parser logged
    \* ---- the renumbering applied by every encoder ----
    rn_pc,              \* "ready" before the substitution, "done" after it
    rn_text,            \* question['text']
    rn_idx,             \* idx of the enumerate loop
    rn_numbering,       \* export_options.get('numbering')
    rn_out,             \* question_text after the if
    \* ---- ExportWorker ----
    w_pc,               \* "ready", "encoding", "finished", "failed"
    w_questions,        \* self.questions
    export_format,      \* self.export_format
    numbering,          \* self.export_options.get('numbering')
    idx,                \* questions processed by the encoder so far
    output,             \* what the encoder has produced, per question
    emitted,            \* the signals emitted so far, in order
    dest_writable,      \* whether self.export_path can be opened for writing
    reportlab_ok,       \* whether reportlab can be imported
    export_path,        \* self.export_path
    include_images,     \* self.export_options['include_images']
    encoder,            \* the export_to_* method run() called, "none" before
    first_run,          \* the finished run before this one, <<>> if none
    \* ---- QuestionApp: launching exports ----
    app,                \* "running", or "crashed" once the process has aborted
    workers,            \* every ExportWorker thread started, with its dialog
    export_worker,      \* self.export_worker: index into workers, 0 for none
    queue,              \* signals posted to the GUI thread, not yet delivered
    msgboxes,           \* modal message boxes open
    \* ---- QuestionApp: the loaded document and its widgets ----
    self_questions,     \* self.questions
    question_widgets,   \* self.question_widgets: checkbox state and visibility
    current_file_path,  \* self.current_file_path, "none" for None
    message,            \* the last message box shown
    numbering_type,     \* self.numbering_type
    \* ---- ImageCache.scale_and_cache_image ----
    sc_pc,              \* "ready", "once" after one scaling, "twice" after two
    sc_size,            \* image.size of the decoded image
    sc_bounds,          \* <<max_width, max_height>>
    sc_out,             \* size of the image after one scaling, <<>> for None
    sc_out2,            \* size after scaling the scaled image again
    \* ---- ImageCache: the cache proper ----
    cache,              \* self.cache: image hash -> pixmap
    hash_cache,         \* self.hash_cache: the hashes with stored bytes
    lru,                \* the memo of lru_cache around get_scaled_pixmap
    processed,          \* <<bytes, bounds>> scaled and stored since the
                        \* cache was last cleared
    ic_last,            \* the last call of the cache and what it did
    \* ---- ExportWorker.export_to_pdf: the layout of the pages ----
    pdf_pc,             \* position in export_to_pdf's loops
    y_position,         \* y_position, in tenths of a point
    part_lines,         \* the lines of the text part handled so far
    blank_run,          \* empty lines since the last thing drawn
    drawn               \* the last thing drawn and where on its page

parseVars == <<pc, i, text, blips, in_question, text_buffer, current_question,
               questions, heap, log>>

rnVars == <<rn_pc, rn_text, rn_idx, rn_numbering, rn_out>>

workerVars == <<w_pc, w_questions, export_format, numbering, idx, output,
                emitted, dest_writable, reportlab_ok, export_path,
                include_images, encoder, first_run>>

guiVars == <<app, workers, export_worker, queue, msgboxes>>

sessVars == <<self_questions, question_widgets, current_file_path, message,
              numbering_type>>

scaleVars == <<sc_pc, sc_size, sc_bounds, sc_out, sc_out2>>

cacheVars == <<cache, hash_cache, lru, processed, ic_last>>

pdfVars == <<pdf_pc, y_position, part_lines, blank_run, drawn>>

vars == <<pc, i, text, blips, in_question, text_buffer, current_question,
          questions, heap, log,
          rn_pc, rn_text, rn_idx, rn_numbering, rn_out,
          w_pc, w_questions, export_format, numbering, idx, output,
          emitted, dest_writable, reportlab_ok, export_path,
          include_images, encoder, first_run,
          app, workers, export_worker, queue, msgboxes,
          self_questions, question_widgets, current_file_path, message,
          numbering_type,
          sc_pc, sc_size, sc_bounds, sc_out, sc_out2,
          cache, hash_cache, lru, processed, ic_last,
          pdf_pc, y_position, part_lines, blank_run, drawn>>

----------------------------------------------------------------------------
(* Bounds *)

MaxPars == 5

\* longest text given to the renumbering
MaxTextLen == 6

\* longest question list given to an export
MaxQ == 3

\* exports started in one session of the main window
MaxExports == 2

\* longest question list exported twice
MaxTwiceQ == 2

\* largest width and height of an image given to the scaling
MaxDim == 6

----------------------------------------------------------------------------
(* Inputs of the parser *)

\* paragraph texts: empty, blank, ordinary, a literal marker, the tokens alone,
\* the tokens with blanks or other text around them, both tokens at once
ParTexts ==
    { <<>>, <<"_">>, <<"x">>, <<"B">>,
      <<"S">>, <<"E">>, <<"_", "S">>, <<"x", "S">>, <<"x", "E">>, <<"S", "E">> }

\* the drawing anchors of a paragraph, in document order: "p" is an image in
\* an accepted format, "t" one in another format (re-encoded to PNG), "bad"
\* one whose relationship is missing or whose bytes do not decode
ParAnchors ==
    { <<>>, <<"p">>, <<"bad">>, <<"p", "t">>, <<"bad", "p">>, <<"p", "bad">> }

----------------------------------------------------------------------------
(* String helpers *)

RECURSIVE Count(_, _)
Count(s, c) ==
    IF s = <<>> THEN 0
    ELSE (IF Head(s) = c THEN 1 ELSE 0) + Count(Tail(s), c)

\* tok in text
Contains(s, c) == \E k \in 1..Len(s) : s[k] = c

\* str.strip()
RECURSIVE LStrip(_)
LStrip(s) ==
    IF s # <<>> /\ Head(s) \in {"_", "\n"} THEN LStrip(Tail(s)) ELSE s

RECURSIVE RStrip(_)
RStrip(s) ==
    IF s # <<>> /\ s[Len(s)] \in {"_", "\n"}
    THEN RStrip(SubSeq(s, 1, Len(s) - 1)) ELSE s

Strip(s) == RStrip(LStrip(s))

\* '\n'.join(lines)
RECURSIVE Join(_)
Join(lines) ==
    IF lines = <<>> THEN <<>>
    ELSE IF Len(lines) = 1 THEN lines[1]
    ELSE lines[1] \o <<"\n">> \o Join(Tail(lines))

\* n copies of the line '[BILD]'
Markers(n) == [k \in 1..n |-> <<"B">>]

----------------------------------------------------------------------------
(* The parser *)

\* one anchor: the bytes appended to images, <<>> when the anchor is skipped
ExtractOne(a) ==
    IF a = "bad" THEN <<>>
    ELSE IF a = "t" THEN <<"t_png">>
    ELSE <<a>>

RECURSIVE extract_images_until_error(_)
extract_images_until_error(anchors) ==
    IF anchors = <<>> \/ Head(anchors) = "bad" THEN <<>>
    ELSE ExtractOne(Head(anchors)) \o extract_images_until_error(Tail(anchors))

RECURSIVE extract_images_from_paragraph(_)
extract_images_from_paragraph(anchors) ==
    IF anchors = <<>> THEN <<>>
    ELSE ExtractOne(Head(anchors)) \o extract_images_from_paragraph(Tail(anchors))

\* "---START---" in text
is_start_exact(t) == Strip(t) = <<"S">>
is_end_exact(t) == Strip(t) = <<"E">>
is_start(t) == Contains(t, "S")

\* "---END---" in text
is_end(t) == Contains(t, "E")

save_current_question_always(cq, tb, qs, hp) ==
    LET saved == [cq EXCEPT !.text = Join(tb)]
    IN  [cq |-> saved, qs |-> Append(qs, saved)]

\* save_current_question(current_question, text_buffer, questions): the new
\* values of the working dict and of the output list.  dict.copy() is shallow:
\* the appended dict refers to the same images list as the working dict.
save_current_question(cq, tb, qs, hp) ==
    IF tb # <<>> \/ hp[cq.images] # <<>>
    THEN LET saved == [cq EXCEPT !.text = Join(tb)]
         IN  [cq |-> saved, qs |-> Append(qs, saved)]
    ELSE [cq |-> cq, qs |-> qs]

\* a fresh {'text': '', 'images': []}: a new list object on the heap
NewQuestion(hp) == [text |-> <<>>, images |-> Len(hp) + 1]

StartBranch_NoReset(t) ==
    LET s == IF in_question
             THEN save_current_question(current_question, text_buffer, questions, heap)
             ELSE [cq |-> current_question, qs |-> questions]
    IN  /\ questions' = s.qs
        /\ log' = IF in_question THEN "unclosed" ELSE log
        /\ in_question' = TRUE
        /\ current_question' = NewQuestion(heap)
        /\ heap' = Append(heap, <<>>)
        /\ text_buffer' = text_buffer

StartBranch_KeepDict(t) ==
    LET s == IF in_question
             THEN save_current_question(current_question, text_buffer, questions, heap)
             ELSE [cq |-> current_question, qs |-> questions]
    IN  /\ questions' = s.qs
        /\ log' = IF in_question THEN "unclosed" ELSE log
        /\ in_question' = TRUE
        /\ current_question' = s.cq
        /\ heap' = Append(heap, <<>>)
        /\ text_buffer' = <<>>

\* the branch taken on a start delimiter
StartBranch(t) ==
    LET s == IF in_question
             THEN save_current_question(current_question, text_buffer, questions, heap)
             ELSE [cq |-> current_question, qs |-> questions]
    IN  /\ questions' = s.qs
        /\ log' = IF in_question THEN "unclosed" ELSE log
        /\ in_question' = TRUE
        /\ current_question' = NewQuestion(heap)
        /\ heap' = Append(heap, <<>>)
        /\ text_buffer' = <<>>

EndBranch_AlwaysSave(t) ==
    LET s == save_current_question(current_question, text_buffer, questions, heap)
    IN  /\ questions' = s.qs
        /\ current_question' = s.cq
        /\ log' = IF in_question THEN log ELSE "stray_end"
        /\ in_question' = FALSE
        /\ UNCHANGED <<text_buffer, heap>>

\* the branch taken on an end delimiter
EndBranch(t) ==
    LET s == IF in_question
             THEN save_current_question(current_question, text_buffer, questions, heap)
             ELSE [cq |-> current_question, qs |-> questions]
    IN  /\ questions' = s.qs
        /\ current_question' = s.cq
        /\ log' = IF in_question THEN log ELSE "stray_end"
        /\ in_question' = FALSE
        /\ UNCHANGED <<text_buffer, heap>>

ContentBranch_StripTest(t, anchors) ==
    LET images == extract_images_from_paragraph(anchors)
    IN  /\ IF images # <<>>
           THEN /\ text_buffer' =
                       (IF Strip(t) # <<>> THEN Append(text_buffer, t) ELSE text_buffer)
                       \o Markers(Len(images))
                /\ heap' = [heap EXCEPT ![current_question.images] = @ \o images]
           ELSE /\ text_buffer' =
                       IF Strip(t) # <<>> THEN Append(text_buffer, t) ELSE text_buffer
                /\ heap' = heap
        /\ UNCHANGED <<in_question, current_question, questions, log>>

\* the branch taken on any other paragraph while in_question
ContentBranch(t, anchors) ==
    LET images == extract_images_from_paragraph(anchors)
    IN  /\ IF images # <<>>
           THEN /\ text_buffer' =
                       (IF Strip(t) # <<>> THEN Append(text_buffer, t) ELSE text_buffer)
                       \o Markers(Len(images))
                /\ heap' = [heap EXCEPT ![current_question.images] = @ \o images]
           ELSE /\ text_buffer' = IF t # <<>> THEN Append(text_buffer, t) ELSE text_buffer
                /\ heap' = heap
        /\ UNCHANGED <<in_question, current_question, questions, log>>

\* one iteration of the for loop over doc.paragraphs
ProcessParagraph ==
    /\ pc = "parsing"
    /\ i < MaxPars
    /\ \E t \in ParTexts, anchors \in ParAnchors :
          /\ text' = t
          /\ blips' = IF ~is_start(t) /\ ~is_end(t) /\ in_question
                      THEN anchors ELSE <<>>
          /\ i' = i + 1
          /\ pc' = pc
          /\ IF is_start(t) THEN StartBranch(t)
             ELSE IF is_end(t) THEN EndBranch(t)
             ELSE IF in_question THEN ContentBranch(t, anchors)
             ELSE UNCHANGED <<in_question, text_buffer, current_question,
                              questions, heap, log>>
    /\ UNCHANGED <<rnVars, workerVars, guiVars, sessVars, scaleVars, cacheVars, pdfVars>>

EndOfInput_NoSave ==
    /\ pc = "parsing"
    /\ log' = IF in_question THEN "unclosed_eof" ELSE log
    /\ pc' = "done"
    /\ UNCHANGED <<i, text, blips, in_question, text_buffer, heap, questions, current_question>>
    /\ UNCHANGED <<rnVars, workerVars, guiVars, sessVars, scaleVars, cacheVars, pdfVars>>

\* the end of doc.paragraphs: the code after the loop
EndOfInput ==
    /\ pc = "parsing"
    /\ LET s == IF in_question
                THEN save_current_question(current_question, text_buffer, questions, heap)
                ELSE [cq |-> current_question, qs |-> questions]
       IN  /\ questions' = s.qs
           /\ current_question' = s.cq
    /\ log' = IF in_question THEN "unclosed_eof" ELSE log
    /\ pc' = "done"
    /\ UNCHANGED <<i, text, blips, in_question, text_buffer, heap>>
    /\ UNCHANGED <<rnVars, workerVars, guiVars, sessVars, scaleVars, cacheVars, pdfVars>>

ParseInit ==
    /\ pc = "parsing"
    /\ i = 0
    /\ text = <<>>
    /\ blips = <<>>
    /\ in_question = FALSE
    /\ text_buffer = <<>>
    /\ current_question = [text |-> <<>>, images |-> 1]
    /\ questions = <<>>
    /\ heap = << <<>> >>
    /\ log = "none"

\* no renumbering under way
RnIdle ==
    /\ rn_pc = "none"
    /\ rn_text = <<>>
    /\ rn_idx = 0
    /\ rn_numbering = "original"
    /\ rn_out = <<>>

\* no export worker constructed
WorkerIdle ==
    /\ w_pc = "none"
    /\ w_questions = <<>>
    /\ export_format = "docx"
    /\ numbering = "original"
    /\ idx = 0
    /\ output = <<>>
    /\ emitted = <<>>
    /\ dest_writable = TRUE
    /\ reportlab_ok = TRUE
    /\ export_path = "a"
    /\ include_images = TRUE
    /\ encoder = "none"
    /\ first_run = <<>>

\* the main window with no export started
GuiIdle ==
    /\ app = "running"
    /\ workers = <<>>
    /\ export_worker = 0
    /\ queue = <<>>
    /\ msgboxes = 0

\* the main window before any document is loaded
SessionIdle ==
    /\ self_questions = <<>>
    /\ question_widgets = <<>>
    /\ current_file_path = "none"
    /\ message = "none"
    /\ numbering_type = "sequential"

\* no image being scaled
ScaleIdle ==
    /\ sc_pc = "none"
    /\ sc_size = <<1, 1>>
    /\ sc_bounds = <<1, 1>>
    /\ sc_out = <<>>
    /\ sc_out2 = <<>>

\* an ImageCache nothing has been put into
CacheIdle ==
    /\ cache = <<>>
    /\ hash_cache = {}
    /\ lru = <<>>
    /\ processed = {}
    /\ ic_last = <<>>

\* no PDF being laid out
PdfIdle ==
    /\ pdf_pc = "none"
    /\ y_position = 0
    /\ part_lines = "none"
    /\ blank_run = 0
    /\ drawn = [kind |-> "none", low |-> 0, before |-> 0, extent |-> 0,
                new_page |-> FALSE]

Init ==
    /\ ParseInit
    /\ RnIdle
    /\ WorkerIdle
    /\ GuiIdle
    /\ SessionIdle
    /\ ScaleIdle
    /\ CacheIdle
    /\ PdfIdle

Next == ProcessParagraph \/ EndOfInput

Spec == Init /\ [][Next]_vars

\* images of a saved question
Images(q) == heap[q.images]

----------------------------------------------------------------------------
(* The parser's claims *)

\* what finalizing the open block appends to the output list: one Question
\* holding the joined lines and the block's images, or nothing when both
\* buffers are empty
Finalized ==
    IF text_buffer # <<>> \/ heap[current_question.images] # <<>>
    THEN Append(questions, [text |-> Join(text_buffer),
                            images |-> current_question.images])
    ELSE questions

\* a step of the loop: one more paragraph has been consumed
Consumed == i' = i + 1

\* C1: every Question of the output has as many [BILD] markers in its text
\* as it has images, whatever the paragraphs (a paragraph's own text may hold
\* the literal marker).
C1_MarkersMatchImages ==
    \A k \in 1..Len(questions) :
        Count(questions[k].text, "B") = Len(Images(questions[k]))

\* C2 as stated: a block is entered only on a paragraph whose trimmed text is
\* exactly the start token and left only on one whose trimmed text is exactly
\* the end token; a paragraph inside a block that holds a token together with
\* other text causes no transition and closes nothing.
C2_ExactDelimiters ==
    [][Consumed =>
          /\ (~in_question /\ in_question') => Strip(text') = <<"S">>
          /\ (in_question /\ ~in_question') => Strip(text') = <<"E">>
          /\ (in_question /\ Strip(text') \notin {<<"S">>, <<"E">>})
                => (in_question' /\ questions' = questions)]_vars

\* C2 amended: a paragraph whose text contains the start token, whatever else
\* it holds, starts a block with empty buffers; one that contains the end
\* token and not the start token ends it; neither paragraph is kept as
\* content; a paragraph holding neither token causes no transition.
C2_ContainsDelimiters ==
    [][Consumed =>
          /\ Contains(text', "S")
                => (in_question' /\ text_buffer' = <<>>)
          /\ (~Contains(text', "S") /\ Contains(text', "E"))
                => (~in_question' /\ text_buffer' = text_buffer)
          /\ (~Contains(text', "S") /\ ~Contains(text', "E"))
                => (in_question' = in_question /\ questions' = questions)]_vars

\* a block closed by a paragraph holding the end token after other text
C2_Witness ==
    /\ text = <<"x", "E">>
    /\ ~in_question
    /\ Len(questions) = 1
    /\ questions[1].text = <<"x">>

\* C8: a start delimiter met inside a block appends the open block to the
\* output if it has text or images, then starts a block whose line buffer and
\* image list are empty and whose image list is a new one; the lists already
\* built are left as they were.
C8_NestedStart ==
    [][(Consumed /\ in_question /\ Contains(text', "S")) =>
          /\ questions' = Finalized
          /\ in_question'
          /\ text_buffer' = <<>>
          /\ current_question'.text = <<>>
          /\ heap'[current_question'.images] = <<>>
          /\ \A r \in 1..Len(heap) : heap'[r] = heap[r]
          /\ \A k \in 1..Len(questions') :
                questions'[k].images # current_question'.images]_vars

\* a second start has closed a block that held a line and an image
C8_Witness ==
    /\ log = "unclosed"
    /\ in_question
    /\ Contains(text, "S")
    /\ text_buffer = <<>>
    /\ Len(questions) = 1
    /\ Images(questions[1]) # <<>>
    /\ questions[1].text = <<"x", "\n", "B">>

\* C9: an end delimiter met outside a block leaves the parser outside and
\* changes neither the output list nor the pending buffers.
C9_StrayEnd ==
    [][(Consumed /\ ~in_question /\ ~Contains(text', "S") /\ Contains(text', "E")) =>
          /\ ~in_question'
          /\ questions' = questions
          /\ text_buffer' = text_buffer
          /\ current_question' = current_question
          /\ heap' = heap]_vars

\* an end delimiter has been met outside, after a block was closed
C9_Witness ==
    /\ log = "stray_end"
    /\ Contains(text, "E")
    /\ ~in_question
    /\ Len(questions) = 1
    /\ text_buffer # <<>>

\* C10: a block open when the paragraphs end is finalized as an end
\* delimiter would finalize it: one Question more if it has text or images,
\* none if it is empty.
C10_OpenAtEnd ==
    [][(pc = "parsing" /\ pc' = "done" /\ in_question) =>
          /\ questions' = Finalized
          /\ Len(questions') =
                Len(questions)
                + (IF text_buffer = <<>> /\ heap[current_question.images] = <<>>
                   THEN 0 ELSE 1)]_vars

\* the paragraphs ended inside a block, which became the only Question
C10_Witness ==
    /\ pc = "done"
    /\ log = "unclosed_eof"
    /\ Len(questions) = 1
    /\ questions[1].text = <<"x">>

\* C11 as stated: every Question of the output has at least one image or at
\* least one line that is not blank, whatever the paragraphs.
C11_ImageOrNonBlankLine ==
    \A k \in 1..Len(questions) :
        Images(questions[k]) # <<>> \/ Strip(questions[k].text) # <<>>

\* C11 amended: every Question of the output has at least one image or a text
\* that is not the empty string; the text may consist of blanks only.
C11_ImageOrNonEmptyText ==
    \A k \in 1..Len(questions) :
        Images(questions[k]) # <<>> \/ questions[k].text # <<>>

\* a block made of one whitespace-only paragraph has become a Question
C11_Witness ==
    /\ ~in_question
    /\ Contains(text, "E")
    /\ Len(questions) = 1
    /\ questions[1].text = <<"_">>
    /\ Images(questions[1]) = <<>>

\* a paragraph of the block that is no delimiter and added no image
PlainParagraph ==
    /\ Consumed
    /\ in_question
    /\ ~Contains(text', "S")
    /\ ~Contains(text', "E")
    /\ heap' = heap

\* C12 as stated: inside a block a paragraph without images is appended as it
\* is when it is not blank, and when it is blank unless it would be the first
\* line of the block; only a blank first line is dropped.
C12_BlankFirstLineDropped ==
    [][PlainParagraph =>
          text_buffer' =
              IF Strip(text') # <<>> \/ text_buffer # <<>>
              THEN Append(text_buffer, text')
              ELSE text_buffer]_vars

\* C12 amended: inside a block a paragraph without images is appended as it
\* is when its text is not the empty string, whitespace-only text included
\* and also as the first line; a paragraph whose text is the empty string is
\* dropped wherever it stands, so an empty line between two text lines is
\* not kept.
C12_EmptyParagraphDropped ==
    [][PlainParagraph =>
          text_buffer' =
              IF text' # <<>>
              THEN Append(text_buffer, text')
              ELSE text_buffer]_vars

\* a whitespace-only first line was kept and an empty paragraph after a text
\* line was dropped
C12_Witness ==
    /\ in_question
    /\ i = 4
    /\ text = <<>>
    /\ text_buffer = << <<"_">>, <<"x">> >>

\* C13: a block between one start and its end delimiter whose paragraphs are
\* not blank yields exactly one Question, whose images are the block's images
\* in the order met, whose text is the buffered lines joined by newline, and
\* whose text holds as many markers as the block has images.
C13_WellFormedBlock ==
    [][(/\ Consumed
        /\ in_question
        /\ Strip(text') = <<"E">>
        /\ text_buffer # <<>>
        /\ \A k \in 1..Len(text_buffer) : Strip(text_buffer[k]) # <<>>) =>
          /\ Len(questions') = Len(questions) + 1
          /\ LET q == questions'[Len(questions')]
             IN  /\ q.text = Join(text_buffer)
                 /\ heap'[q.images] = heap[current_question.images]
                 /\ Count(q.text, "B") = Len(heap'[q.images])]_vars

\* the blips of the paragraph that were resolved and decoded, in order
Resolved(bs) == SelectSeq(bs, LAMBDA a : a # "bad")

\* C24: a blip of a paragraph that cannot be resolved or decoded is skipped
\* alone: the paragraph's other images are appended in anchor order, one
\* marker is appended for each of them and none for the skipped one, a text
\* that is not blank is kept in front of the markers, and the loop goes on
\* inside the block.
C24_OnlyFailedImageSkipped ==
    [][(Consumed /\ in_question /\ ~Contains(text', "S") /\ ~Contains(text', "E")) =>
          LET r == current_question.images
              good == Resolved(blips')
              kept == IF Strip(text') # <<>> \/ (good = <<>> /\ text' # <<>>)
                      THEN <<text'>> ELSE <<>>
          IN  /\ Len(heap'[r]) = Len(heap[r]) + Len(good)
              /\ SubSeq(heap'[r], 1, Len(heap[r])) = heap[r]
              /\ \A k \in 1..Len(good) :
                    heap'[r][Len(heap[r]) + k] =
                        IF good[k] = "t" THEN "t_png" ELSE good[k]
              /\ text_buffer' = text_buffer \o kept \o Markers(Len(good))
              /\ pc' = "parsing"
              /\ in_question'
              /\ current_question' = current_question
              /\ questions' = questions]_vars

\* a paragraph with text whose first blip failed and whose second did not:
\* the text, one marker and the second image were buffered
C24_Witness ==
    /\ pc = "parsing"
    /\ in_question
    /\ blips = <<"bad", "p">>
    /\ text = <<"x">>
    /\ text_buffer = << <<"x">>, <<"B">> >>
    /\ heap[current_question.images] = <<"p">>

\* C25: a Question appended to the output keeps its text and its image
\* list through every later step of the parse, and the output only grows.
C25_AppendedQuestionsFrozen ==
    [][/\ Len(questions') >= Len(questions)
       /\ \A k \in 1..Len(questions) :
             /\ questions'[k].text = questions[k].text
             /\ heap'[questions'[k].images] = heap[questions[k].images]]_vars

\* a second block received an image after the first block, which has two,
\* was appended
C25_Witness ==
    /\ in_question
    /\ blips = <<"p">>
    /\ Len(questions) = 1
    /\ Images(questions[1]) = <<"p", "t_png">>
    /\ heap[current_question.images] = <<"p">>
    /\ current_question.images # questions[1].images

\* C26: no Question's text and no buffered line holds the start or the end
\* token; a paragraph met outside a block that is no start delimiter leaves
\* the output, the line buffer and every image list as they are; and there
\* are never more Questions than start delimiters met (each start makes one
\* new image list on the heap).
C26_OnlyBlockContent ==
    [][/\ \A k \in 1..Len(questions') :
             ~Contains(questions'[k].text, "S") /\ ~Contains(questions'[k].text, "E")
       /\ \A k \in 1..Len(text_buffer') :
             ~Contains(text_buffer'[k], "S") /\ ~Contains(text_buffer'[k], "E")
       /\ (Consumed /\ ~in_question /\ ~Contains(text', "S")) =>
             /\ questions' = questions
             /\ text_buffer' = text_buffer
             /\ heap' = heap
       /\ Len(questions') <= Len(heap') - 1]_vars

\* a text paragraph was met after the only block was closed
C26_Witness ==
    /\ ~in_question
    /\ log = "none"
    /\ text = <<"x">>
    /\ Len(heap) = 2
    /\ Len(questions) = 1
    /\ questions[1].text = <<"_">>

----------------------------------------------------------------------------
(* Renumbering: re.sub(r'(Aufgabe\s+)(\d+)', rf'\g<1>{new_number}',         *)
(* question_text, flags=re.IGNORECASE), the same in all five encoders       *)

Labels == {"A", "a"}
Spaces == {"_", "\n"}
Digits == {"0", "1", "2", "3", "4", "5", "6", "7", "8", "9"}

DigitChar == <<"0", "1", "2", "3", "4", "5", "6", "7", "8", "9">>

\* str(n) for n >= 0
RECURSIVE ToDigits(_)
ToDigits(n) ==
    IF n < 10 THEN <<DigitChar[n + 1]>>
    ELSE ToDigits(n \div 10) \o <<DigitChar[(n % 10) + 1]>>

\* length of the longest run of symbols of set cs that starts at position p
RECURSIVE Span(_, _, _)
Span(s, p, cs) ==
    IF p <= Len(s) /\ s[p] \in cs THEN 1 + Span(s, p + 1, cs) ELSE 0

\* length of the blanks of the match of (Aufgabe\s+)(\d+) at p, 0 if none
MatchSpaces(s, p) ==
    IF p <= Len(s) /\ s[p] \in Labels
          /\ Span(s, p + 1, Spaces) > 0
          /\ Span(s, p + 1 + Span(s, p + 1, Spaces), Digits) > 0
    THEN Span(s, p + 1, Spaces)
    ELSE 0

\* re.sub scanning from position p; count = 0 replaces every match, count > 0
\* at most that many
RECURSIVE re_sub_from(_, _, _, _)
re_sub_from(s, p, new, count) ==
    IF p > Len(s) THEN <<>>
    ELSE LET ws == MatchSpaces(s, p)
             dg == Span(s, p + 1 + ws, Digits)
         IN  IF ws > 0
             THEN IF count = 1
                  THEN SubSeq(s, p, p + ws) \o new
                       \o SubSeq(s, p + 1 + ws + dg, Len(s))
                  ELSE SubSeq(s, p, p + ws) \o new
                       \o re_sub_from(s, p + 1 + ws + dg, new,
                                      IF count = 0 THEN 0 ELSE count - 1)
             ELSE <<s[p]>> \o re_sub_from(s, p + 1, new, count)

renumber_first(t, ix, mode) ==
    IF mode = "sequential"
    THEN re_sub_from(t, 1, ToDigits(ix + 1), 1)
    ELSE t

renumber_always(t, ix, mode) == re_sub_from(t, 1, ToDigits(ix + 1), 0)

\* question_text after "if numbering == 'sequential': re.sub(...)"
renumber(t, ix, mode) ==
    IF mode = "sequential"
    THEN re_sub_from(t, 1, ToDigits(ix + 1), 0)
    ELSE t

RnAlphabet == {"A", "a", "_", "7", "x"}

RnTexts == UNION {[1..n -> RnAlphabet] : n \in 0..MaxTextLen}

RnIdxs == {0, 2}

RnInit ==
    /\ rn_pc = "ready"
    /\ rn_text \in RnTexts
    /\ rn_idx \in RnIdxs
    /\ rn_numbering \in {"original", "sequential"}
    /\ rn_out = <<>>

\* the renumbering step of an encoder's loop body
Renumber ==
    /\ rn_pc = "ready"
    /\ rn_out' = renumber(rn_text, rn_idx, rn_numbering)
    /\ rn_pc' = "done"
    /\ UNCHANGED <<rn_text, rn_idx, rn_numbering, parseVars, workerVars, guiVars, sessVars, scaleVars, cacheVars, pdfVars>>

ParseIdle ==
    /\ pc = "none"
    /\ i = 0
    /\ text = <<>>
    /\ blips = <<>>
    /\ in_question = FALSE
    /\ text_buffer = <<>>
    /\ current_question = [text |-> <<>>, images |-> 1]
    /\ questions = <<>>
    /\ heap = << <<>> >>
    /\ log = "none"

RenumberInit ==
    /\ RnInit
    /\ ParseIdle
    /\ WorkerIdle
    /\ GuiIdle
    /\ SessionIdle
    /\ ScaleIdle
    /\ CacheIdle
    /\ PdfIdle

RenumberNext == Renumber

SpecRenumber == RenumberInit /\ [][RenumberNext]_vars

----------------------------------------------------------------------------
(* The renumbering's claims *)

\* position k of s is a digit of a run that follows a label and blanks
RECURSIVE AfterLabel(_, _)
AfterLabel(s, k) ==
    /\ k > 1
    /\ \/ s[k - 1] \in Spaces /\ AfterLabel(s, k - 1)
       \/ s[k - 1] \in Labels /\ s[k] \in Spaces

RECURSIVE RunStart(_, _)
RunStart(s, k) == IF k > 1 /\ s[k - 1] \in Digits THEN RunStart(s, k - 1) ELSE k

PatternDigit(s, k) ==
    /\ s[k] \in Digits
    /\ AfterLabel(s, RunStart(s, k))

\* the positions at which a digit run of the pattern starts
PatternRuns(s) == {k \in 1..Len(s) : PatternDigit(s, k) /\ RunStart(s, k) = k}

\* s with the digit runs that start at a position of set runs replaced by new
RECURSIVE ReplaceRuns(_, _, _, _)
ReplaceRuns(s, k, runs, new) ==
    IF k > Len(s) THEN <<>>
    ELSE (IF k \in runs THEN new
          ELSE IF s[k] \in Digits /\ RunStart(s, k) \in runs THEN <<>>
          ELSE <<s[k]>>)
         \o ReplaceRuns(s, k + 1, runs, new)

Min(S) == CHOOSE m \in S : \A n \in S : m <= n

FirstRun(s) == IF PatternRuns(s) = {} THEN {} ELSE {Min(PatternRuns(s))}

\* C3 as stated: in sequential mode only the digit run of the first
\* occurrence of the label followed by digits becomes idx+1; later
\* occurrences and all other text are unchanged.
C3_OnlyFirstOccurrence ==
    (rn_pc = "done" /\ rn_numbering = "sequential") =>
        rn_out = ReplaceRuns(rn_text, 1, FirstRun(rn_text), ToDigits(rn_idx + 1))

\* C3 amended: in sequential mode the digit run of every occurrence of the
\* label (in any casing) followed by blanks and digits becomes idx+1; the
\* label, the blanks and all other text are unchanged, and a text without
\* the pattern is returned unchanged.
C3_EveryOccurrence ==
    (rn_pc = "done" /\ rn_numbering = "sequential") =>
        /\ rn_out = ReplaceRuns(rn_text, 1, PatternRuns(rn_text), ToDigits(rn_idx + 1))
        /\ PatternRuns(rn_text) = {} => rn_out = rn_text

\* a text with two occurrences has been renumbered: both numbers changed
C3_Witness ==
    /\ rn_pc = "done"
    /\ rn_numbering = "sequential"
    /\ rn_idx = 2
    /\ rn_text = <<"A", "_", "7", "a", "_", "7">>
    /\ rn_out = <<"A", "_", "3", "a", "_", "3">>

\* C14: in original numbering mode the text an encoder goes on to write is
\* the Question's text unchanged, for every text and every index, labels
\* followed by a number included.
C14_OriginalIdentity ==
    (rn_pc = "done" /\ rn_numbering = "original") => rn_out = rn_text

\* a text holding a numbered label went through in original mode at idx 2
C14_Witness ==
    /\ rn_pc = "done"
    /\ rn_numbering = "original"
    /\ rn_idx = 2
    /\ rn_text = <<"A", "_", "7", "x", "a", "_">>
    /\ rn_out = rn_text

----------------------------------------------------------------------------
(* ExportWorker: run() and the five encoders                               *)
(*                                                                         *)
(* An image of a Question is "ok" (decodes, within the 25% page-height     *)
(* bound), "big" (decodes, taller than the bound) or "bad" (its header     *)
(* opens, as it did in the parser, but its pixel data does not decode and  *)
(* it is taller than the bound, so that resizing or re-encoding it raises).*)

Formats == {"docx", "txt", "html", "json", "pdf"}

\* destinations chosen in the save dialog
Paths == {"a", "b"}

\* the Questions an export is given: markers in the text, one per image
ExportQuestions ==
    { [text |-> <<"A", "_", "7">>,                images |-> <<>>],
      [text |-> <<"x", "\n", "B">>,               images |-> <<"ok">>],
      [text |-> <<"B", "\n", "B">>,               images |-> <<"bad", "big">>],
      [text |-> <<"a", "_", "7", "\n", "B">>,     images |-> <<"bad">>] }

\* str.split(sep) for a one-symbol separator
RECURSIVE Split(_, _)
Split(s, sep) ==
    IF ~Contains(s, sep) THEN <<s>>
    ELSE LET k == CHOOSE j \in 1..Len(s) :
                     s[j] = sep /\ \A m \in 1..(j - 1) : s[m] # sep
         IN  <<SubSeq(s, 1, k - 1)>> \o Split(SubSeq(s, k + 1, Len(s)), sep)

\* str.replace(old, new) for a one-symbol old and a one-symbol new
Replace(s, old, new) == [k \in 1..Len(s) |-> IF s[k] = old THEN new ELSE s[k]]

Item(kind, txt, num, scaled) ==
    [kind |-> kind, text |-> txt, num |-> num, scaled |-> scaled]

\* the value of self.progress.emit(int((idx + 1) / len(self.questions) * 100))
\* after the k-th of n questions.  The quotient and the product are floating
\* point: for these (k, n), the only ones with n <= 200, the product falls
\* just below the exact integer 100*k/n and int() yields one less.
FloatShort ==
    { <<29, 50>>, <<29, 100>>, <<57, 100>>, <<58, 100>>, <<87, 150>>,
      <<58, 200>>, <<114, 200>>, <<116, 200>> }

progress_value_round(k, n) == (200 * k + n) \div (2 * n)

progress_value(k, n) ==
    ((100 * k) \div n) - (IF <<k, n>> \in FloatShort THEN 1 ELSE 0)

\* ---- export_to_docx: the paragraphs and pictures added for one question

RECURSIVE docx_lines(_, _)
docx_lines(lines, part_i) ==
    IF lines = <<>> THEN <<>>
    ELSE (IF Head(lines) # <<>> \/ part_i > 0
          THEN <<Item("par", RStrip(Head(lines)), 0, FALSE)>>
          ELSE <<>>)
         \o docx_lines(Tail(lines), part_i)

docx_image(img, part_i) ==
    IF img = "ok" THEN <<Item("img", <<>>, part_i + 1, FALSE)>>
    ELSE IF img = "big" THEN <<Item("img", <<>>, part_i + 1, TRUE)>>
    ELSE <<>>

RECURSIVE docx_parts(_, _, _)
docx_parts(parts, images, part_i) ==
    IF part_i >= Len(parts) THEN <<>>
    ELSE (IF Strip(parts[part_i + 1]) # <<>>
          THEN docx_lines(Split(parts[part_i + 1], "\n"), part_i)
          ELSE <<>>)
         \o (IF part_i < Len(images) THEN docx_image(images[part_i + 1], part_i)
             ELSE <<>>)
         \o docx_parts(parts, images, part_i + 1)

export_to_docx(q, ix, n, mode) ==
    docx_parts(Split(renumber(q.text, ix, mode), "B"), q.images, 0)
    \o (IF ix < n - 1 THEN <<Item("sep", <<>>, 0, FALSE)>> ELSE <<>>)

export_to_txt_sep_between(q, ix, n, mode) ==
    <<Item("text", Replace(renumber(q.text, ix, mode), "B", "I") \o <<"\n">>, 0, FALSE)>>
    \o (IF q.images # <<>> THEN <<Item("count", <<>>, Len(q.images), FALSE)>> ELSE <<>>)
    \o (IF ix < n - 1 THEN <<Item("sep", <<>>, 0, FALSE)>> ELSE <<>>)

\* ---- export_to_txt: what is written for one question

export_to_txt(q, ix, n, mode) ==
    <<Item("text", Replace(renumber(q.text, ix, mode), "B", "I") \o <<"\n">>, 0, FALSE)>>
    \o (IF q.images # <<>> THEN <<Item("count", <<>>, Len(q.images), FALSE)>> ELSE <<>>)
    \o <<Item("sep", <<>>, 0, FALSE)>>

\* ---- export_to_html: what is added to html_content for one question

html_image(img, part_i) ==
    IF img = "ok" THEN <<Item("img", <<>>, part_i + 1, FALSE)>>
    ELSE IF img = "big" THEN <<Item("img", <<>>, part_i + 1, TRUE)>>
    ELSE <<Item("placeholder", <<>>, part_i + 1, FALSE)>>

RECURSIVE html_parts(_, _, _)
html_parts(parts, images, part_i) ==
    IF part_i >= Len(parts) THEN <<>>
    ELSE (IF Strip(parts[part_i + 1]) # <<>>
          THEN <<Item("text", Replace(parts[part_i + 1], "\n", "br"), 0, FALSE)>>
          ELSE <<>>)
         \o (IF part_i < Len(images) THEN html_image(images[part_i + 1], part_i)
             ELSE <<>>)
         \o html_parts(parts, images, part_i + 1)

export_to_html(q, ix, n, mode) ==
    html_parts(Split(renumber(q.text, ix, mode), "B"), q.images, 0)
    \o (IF ix < n - 1 THEN <<Item("sep", <<>>, 0, FALSE)>> ELSE <<>>)

export_to_json_with_path(q, ix, n, mode) ==
    << [kind |-> "record",
        number |-> IF mode = "sequential" THEN ix + 1 ELSE 0,
        text |-> renumber(q.text, ix, mode) \o <<export_path>>,
        images_count |-> Len(q.images),
        images |-> <<>>] >>

\* ---- export_to_json: the record appended to data['questions']

RECURSIVE json_images(_, _)
json_images(images, img_idx) ==
    IF img_idx >= Len(images) THEN <<>>
    ELSE (IF images[img_idx + 1] = "ok"
          THEN <<Item("img", <<>>, img_idx + 1, FALSE)>>
          ELSE IF images[img_idx + 1] = "big"
          THEN <<Item("img", <<>>, img_idx + 1, TRUE)>>
          ELSE <<>>)
         \o json_images(images, img_idx + 1)

export_to_json(q, ix, n, mode) ==
    << [kind |-> "record",
        number |-> IF mode = "sequential" THEN ix + 1 ELSE 0,
        text |-> renumber(q.text, ix, mode),
        images_count |-> Len(q.images),
        images |-> json_images(q.images, 0)] >>

\* ---- export_to_pdf: what is drawn for one question

RECURSIVE pdf_lines(_)
pdf_lines(lines) ==
    IF lines = <<>> THEN <<>>
    ELSE (IF Strip(Head(lines)) # <<>>
          THEN <<Item("line", Head(lines), 0, FALSE)>>
          ELSE <<>>)
         \o pdf_lines(Tail(lines))

pdf_image(img, part_i) ==
    IF img = "ok" THEN <<Item("img", <<>>, part_i + 1, FALSE)>>
    ELSE IF img = "big" THEN <<Item("img", <<>>, part_i + 1, TRUE)>>
    ELSE <<Item("placeholder", <<>>, part_i + 1, FALSE)>>

RECURSIVE pdf_parts(_, _, _)
pdf_parts(parts, images, part_i) ==
    IF part_i >= Len(parts) THEN <<>>
    ELSE (IF Strip(parts[part_i + 1]) # <<>>
          THEN pdf_lines(Split(parts[part_i + 1], "\n"))
          ELSE <<>>)
         \o (IF part_i < Len(images) THEN pdf_image(images[part_i + 1], part_i)
             ELSE <<>>)
         \o pdf_parts(parts, images, part_i + 1)

export_to_pdf(q, ix, n, mode) ==
    pdf_parts(Split(renumber(q.text, ix, mode), "B"), q.images, 0)
    \o (IF ix < n - 1 THEN <<Item("sep", <<>>, 0, FALSE)>> ELSE <<>>)

Encode_IncludeImages(fmt, q, ix, n, mode) ==
    LET qi == IF include_images THEN q
              ELSE [text |-> SelectSeq(q.text, LAMBDA c : c # "B"), images |-> <<>>]
    IN  IF fmt = "docx" THEN export_to_docx(qi, ix, n, mode)
        ELSE IF fmt = "txt" THEN export_to_txt(qi, ix, n, mode)
        ELSE IF fmt = "html" THEN export_to_html(qi, ix, n, mode)
        ELSE IF fmt = "json" THEN export_to_json(qi, ix, n, mode)
        ELSE export_to_pdf(qi, ix, n, mode)

\* the loop body of the encoder run() dispatches to
Encode(fmt, q, ix, n, mode) ==
    IF fmt = "docx" THEN export_to_docx(q, ix, n, mode)
    ELSE IF fmt = "txt" THEN export_to_txt(q, ix, n, mode)
    ELSE IF fmt = "html" THEN export_to_html(q, ix, n, mode)
    ELSE IF fmt = "json" THEN export_to_json(q, ix, n, mode)
    ELSE export_to_pdf(q, ix, n, mode)

Signal(sig, val) == [sig |-> sig, val |-> val]

dispatch_no_pdf(fmt) ==
    IF fmt = "docx" THEN "export_to_docx"
    ELSE IF fmt = "txt" THEN "export_to_txt"
    ELSE IF fmt = "html" THEN "export_to_html"
    ELSE IF fmt = "json" THEN "export_to_json"
    ELSE "none"

\* the method run() calls for a format; none of the branches of its
\* if/elif chain is taken for any other string
dispatch(fmt) ==
    IF fmt = "docx" THEN "export_to_docx"
    ELSE IF fmt = "txt" THEN "export_to_txt"
    ELSE IF fmt = "html" THEN "export_to_html"
    ELSE IF fmt = "json" THEN "export_to_json"
    ELSE IF fmt = "pdf" THEN "export_to_pdf"
    ELSE "none"

RunBegin_NoImportCheck ==
    /\ w_pc = "ready"
    /\ encoder' = dispatch(export_format)
    /\ IF export_format = "txt" /\ ~dest_writable
       THEN /\ emitted' = Append(emitted, Signal("error", "unwritable"))
            /\ w_pc' = "failed"
       ELSE /\ emitted' = emitted
            /\ w_pc' = "encoding"
    /\ UNCHANGED <<w_questions, export_format, numbering, idx, output,
                   dest_writable, reportlab_ok, export_path,
                   include_images, first_run, parseVars, rnVars, guiVars, sessVars, scaleVars, cacheVars, pdfVars>>

\* run() up to the encoder's loop: the dispatch on self.export_format (with
\* no branch taken, finished is emitted at once); export_to_txt opens the
\* destination first, export_to_pdf imports reportlab first; the others
\* open nothing yet
RunBegin ==
    /\ w_pc = "ready"
    /\ encoder' = dispatch(export_format)
    /\ IF dispatch(export_format) = "none"
       THEN /\ emitted' = Append(emitted, Signal("finished", export_path))
            /\ w_pc' = "finished"
       ELSE IF export_format = "txt" /\ ~dest_writable
       THEN /\ emitted' = Append(emitted, Signal("error", "unwritable"))
            /\ w_pc' = "failed"
       ELSE IF export_format = "pdf" /\ ~reportlab_ok
       THEN /\ emitted' = Append(emitted, Signal("error", "reportlab"))
            /\ w_pc' = "failed"
       ELSE /\ emitted' = emitted
            /\ w_pc' = "encoding"
    /\ UNCHANGED <<w_questions, export_format, numbering, idx, output,
                   dest_writable, reportlab_ok, export_path,
                   include_images, first_run, parseVars, rnVars, guiVars, sessVars, scaleVars, cacheVars, pdfVars>>

EncodeQuestion_WriteBack ==
    /\ w_pc = "encoding"
    /\ idx < Len(w_questions)
    /\ output' = Append(output, Encode(export_format, w_questions[idx + 1], idx,
                                       Len(w_questions), numbering))
    /\ emitted' = Append(emitted,
                         Signal("progress", progress_value(idx + 1, Len(w_questions))))
    /\ idx' = idx + 1
    /\ w_questions' = [w_questions EXCEPT
                          ![idx + 1].text = renumber(@, idx, numbering)]
    /\ UNCHANGED <<w_pc, export_format, numbering,
                   dest_writable, reportlab_ok, export_path,
                   include_images, first_run, encoder, parseVars, rnVars, guiVars, sessVars, scaleVars, cacheVars, pdfVars>>

\* one iteration of the encoder's loop over self.questions
EncodeQuestion ==
    /\ w_pc = "encoding"
    /\ idx < Len(w_questions)
    /\ output' = Append(output, Encode(export_format, w_questions[idx + 1], idx,
                                       Len(w_questions), numbering))
    /\ emitted' = Append(emitted,
                         Signal("progress", progress_value(idx + 1, Len(w_questions))))
    /\ idx' = idx + 1
    /\ UNCHANGED <<w_pc, w_questions, export_format, numbering,
                   dest_writable, reportlab_ok, export_path,
                   include_images, first_run, encoder, parseVars, rnVars, guiVars, sessVars, scaleVars, cacheVars, pdfVars>>

RunEnd_Both ==
    /\ w_pc = "encoding"
    /\ idx = Len(w_questions)
    /\ IF export_format # "txt" /\ ~dest_writable
       THEN /\ emitted' = emitted \o <<Signal("error", "unwritable"),
                                       Signal("finished", export_path)>>
            /\ w_pc' = "failed"
       ELSE /\ emitted' = Append(emitted, Signal("finished", export_path))
            /\ w_pc' = "finished"
    /\ UNCHANGED <<w_questions, export_format, numbering, idx, output,
                   dest_writable, reportlab_ok, export_path,
                   include_images, first_run, encoder, parseVars, rnVars, guiVars, sessVars, scaleVars, cacheVars, pdfVars>>

\* the encoder after its loop (doc.save, c.save, or open and write; the txt
\* file is only closed), then run()'s finished.emit or its except branch
RunEnd ==
    /\ w_pc = "encoding"
    /\ idx = Len(w_questions)
    /\ IF export_format # "txt" /\ ~dest_writable
       THEN /\ emitted' = Append(emitted, Signal("error", "unwritable"))
            /\ w_pc' = "failed"
       ELSE /\ emitted' = Append(emitted, Signal("finished", export_path))
            /\ w_pc' = "finished"
    /\ UNCHANGED <<w_questions, export_format, numbering, idx, output,
                   dest_writable, reportlab_ok, export_path,
                   include_images, first_run, encoder, parseVars, rnVars, guiVars, sessVars, scaleVars, cacheVars, pdfVars>>

QuestionLists == UNION {[1..n -> ExportQuestions] : n \in 1..MaxQ}

WorkerInit ==
    /\ w_pc = "ready"
    /\ w_questions \in QuestionLists
    /\ export_format \in Formats
    /\ numbering \in {"original", "sequential"}
    /\ idx = 0
    /\ output = <<>>
    /\ emitted = <<>>
    /\ dest_writable \in BOOLEAN
    /\ reportlab_ok \in BOOLEAN
    /\ export_path \in Paths
    /\ include_images \in BOOLEAN
    /\ encoder = "none"
    /\ first_run = <<>>

WorkerNext == RunBegin \/ EncodeQuestion \/ RunEnd

ExportInit ==
    /\ WorkerInit
    /\ ParseIdle
    /\ RnIdle
    /\ GuiIdle
    /\ SessionIdle
    /\ ScaleIdle
    /\ CacheIdle
    /\ PdfIdle

SpecExport == ExportInit /\ [][WorkerNext]_vars

----------------------------------------------------------------------------
(* The export worker's claims *)

Terminal(k) == emitted[k].sig \in {"finished", "error"}

Terminals == {k \in 1..Len(emitted) : Terminal(k)}

\* C4: a run emits exactly one terminal signal, finished with the
\* destination path or error with a cause, never both and never neither, and
\* no progress signal after it.
C4_OneTerminalSignal ==
    /\ Cardinality(Terminals) <= 1
    /\ \A k \in Terminals : k = Len(emitted)
    /\ w_pc \in {"ready", "encoding"} => Terminals = {}
    /\ w_pc = "finished" =>
          /\ Terminals # {}
          /\ emitted[Len(emitted)] = Signal("finished", export_path)
    /\ w_pc = "failed" =>
          /\ Terminals # {}
          /\ emitted[Len(emitted)].sig = "error"
          /\ emitted[Len(emitted)].val \in {"unwritable", "reportlab"}

\* a run that emitted progress and then failed on writing its destination
C4_Witness ==
    /\ w_pc = "failed"
    /\ Len(emitted) = 3
    /\ emitted[2] = Signal("progress", 100)
    /\ emitted[3] = Signal("error", "unwritable")

\* number of placeholders among the items written for a question
RECURSIVE Placeholders(_)
Placeholders(items) ==
    IF items = <<>> THEN 0
    ELSE (IF Head(items).kind = "placeholder" THEN 1 ELSE 0)
         + Placeholders(Tail(items))

OutputItems(k) ==
    IF export_format = "json" THEN output[k][1].images ELSE output[k]

\* C6: in the encoders that output images (docx, pdf, html, json) every image
\* that fails to decode or to be written leaves a visible placeholder in the
\* output of its question.
C6_FailedImagePlaceholder ==
    export_format \in {"docx", "pdf", "html", "json"} =>
        \A k \in 1..Len(output) :
            Placeholders(OutputItems(k)) = Count(w_questions[k].images, "bad")

\* C7 as stated: after the k-th of n questions the progress value is
\* 100*k/n rounded to the nearest integer.
C7_ProgressRounded ==
    \A k \in 1..idx :
        emitted[k] = Signal("progress", progress_value_round(k, Len(w_questions)))

\* C7 amended: after the k-th of n questions the progress value is 100*k/n
\* truncated to an integer, never rounded up: the floor of 100*k/n for every
\* list of fewer than 50 questions, and never more than one below the floor.
C7_ProgressTruncated ==
    \A k \in 1..idx :
        LET n == Len(w_questions)
        IN  /\ emitted[k].sig = "progress"
            /\ emitted[k].val <= (100 * k) \div n
            /\ emitted[k].val >= ((100 * k) \div n) - 1
            /\ n < 50 => emitted[k].val = (100 * k) \div n
            /\ k = n => emitted[k].val = 100

\* two of three questions processed: 66 emitted, where rounding gives 67
C7_Witness ==
    /\ Len(w_questions) = 3
    /\ idx = 2
    /\ emitted[2] = Signal("progress", 66)

\* the run cannot succeed: its destination cannot be written, or it is a pdf
\* export and reportlab cannot be imported
FatalCondition ==
    ~dest_writable \/ (export_format = "pdf" /\ ~reportlab_ok)

\* C15: when the destination cannot be written or the library the format
\* needs is missing, the run never emits finished, and it ends failed with
\* the error signal carrying the cause.
C15_FatalFailureAborts ==
    FatalCondition =>
        /\ w_pc # "finished"
        /\ \A k \in 1..Len(emitted) : emitted[k].sig # "finished"
        /\ (w_pc = "encoding" /\ idx = Len(w_questions)) => ENABLED RunEnd
        /\ w_pc = "failed" =>
              /\ emitted[Len(emitted)] =
                    Signal("error",
                           IF export_format = "pdf" /\ ~reportlab_ok
                           THEN "reportlab" ELSE "unwritable")
              /\ (export_format \in {"txt", "pdf"} /\ Len(emitted) = 1)
                    => output = <<>>

\* a pdf export without reportlab failed before encoding any question
C15_Witness ==
    /\ w_pc = "failed"
    /\ export_format = "pdf"
    /\ ~reportlab_ok
    /\ dest_writable
    /\ emitted = <<Signal("error", "reportlab")>>
    /\ output = <<>>

\* number of items of a kind among the items written for a question
RECURSIVE Kinds(_, _)
Kinds(items, kind) ==
    IF items = <<>> THEN 0
    ELSE (IF Head(items).kind = kind THEN 1 ELSE 0) + Kinds(Tail(items), kind)

RECURSIVE Separators(_)
Separators(out) ==
    IF out = <<>> THEN 0
    ELSE Kinds(Head(out), "sep") + Separators(Tail(out))

\* C18: in the txt output each question gives one block: its text (after
\* renumbering) with every marker replaced by the placeholder, then a count
\* line if and only if it has an image, then the separator; there are as
\* many separators as questions written.
C18_TxtBlocks ==
    export_format = "txt" =>
        /\ Separators(output) = idx
        /\ w_pc = "finished" => Separators(output) = Len(w_questions)
        /\ \A k \in 1..Len(output) :
              LET q == w_questions[k]
                  t == renumber(q.text, k - 1, numbering)
                  items == output[k]
              IN  /\ Len(items) = IF q.images = <<>> THEN 2 ELSE 3
                  /\ items[1].kind = "text"
                  /\ Len(items[1].text) = Len(t) + 1
                  /\ items[1].text[Len(t) + 1] = "\n"
                  /\ \A j \in 1..Len(t) :
                        items[1].text[j] = IF t[j] = "B" THEN "I" ELSE t[j]
                  /\ Kinds(items, "count") = IF q.images = <<>> THEN 0 ELSE 1
                  /\ q.images # <<>> =>
                        /\ items[2].kind = "count"
                        /\ items[2].num = Len(q.images)
                  /\ items[Len(items)].kind = "sep"

\* a txt export of a question without images and one with two markers
C18_Witness ==
    /\ export_format = "txt"
    /\ w_pc = "finished"
    /\ Len(w_questions) = 2
    /\ w_questions[1].images = <<>>
    /\ Len(output[1]) = 2
    /\ output[2][1].text = <<"I", "\n", "I", "\n">>
    /\ output[2][2].num = 2

\* C19: in the json output total_questions, the length of the list given,
\* is the number of records, and every record's images_count is the number
\* of entries of its images list, whatever the images.
C19_JsonCounts ==
    export_format = "json" =>
        /\ w_pc = "finished" => Len(output) = Len(w_questions)
        /\ \A k \in 1..Len(output) :
              output[k][1].images_count = Len(output[k][1].images)

\* the encoder of each format
EncoderOf ==
    [docx |-> "export_to_docx", txt |-> "export_to_txt", html |-> "export_to_html",
     json |-> "export_to_json", pdf |-> "export_to_pdf"]

\* C23: a run calls no encoder before it starts and then exactly the one of
\* its format; a terminal signal is emitted only after that call, and
\* finished only after the encoder has written every question given, of
\* which there is at least one.
C23_OneEncoder ==
    /\ w_pc = "ready" => encoder = "none"
    /\ w_pc \in {"encoding", "finished", "failed"} =>
          encoder = EncoderOf[export_format]
    /\ Terminals # {} => encoder # "none"
    /\ w_pc = "finished" =>
          /\ Len(output) = Len(w_questions)
          /\ Len(output) >= 1

\* a pdf run of two questions finished after export_to_pdf
C23_Witness ==
    /\ w_pc = "finished"
    /\ export_format = "pdf"
    /\ encoder = "export_to_pdf"
    /\ Len(output) = 2

\* C29: the progress values of a run never decrease and lie in 0..100, and
\* a run that has emitted progress 100 does not end with the error signal.
C29_ProgressThenCompletion ==
    /\ \A k \in 1..Len(emitted) :
          emitted[k].sig = "progress" => emitted[k].val \in 0..100
    /\ \A j, k \in 1..Len(emitted) :
          (j < k /\ emitted[j].sig = "progress" /\ emitted[k].sig = "progress")
              => emitted[j].val <= emitted[k].val
    /\ (\E k \in 1..Len(emitted) : emitted[k] = Signal("progress", 100)) =>
          /\ w_pc # "failed"
          /\ \A k \in 1..Len(emitted) : emitted[k].sig # "error"

----------------------------------------------------------------------------
(* The same questions exported twice: a second ExportWorker is constructed *)
(* with the questions, the format and the numbering of the first, and      *)
(* with a destination and an include_images option chosen anew.            *)

TwiceQuestionLists == UNION {[1..n -> ExportQuestions] : n \in 1..MaxTwiceQ}

TwiceInit ==
    /\ w_pc = "ready"
    /\ w_questions \in TwiceQuestionLists
    /\ export_format \in Formats
    /\ numbering \in {"original", "sequential"}
    /\ idx = 0
    /\ output = <<>>
    /\ emitted = <<>>
    /\ dest_writable \in BOOLEAN
    /\ reportlab_ok \in BOOLEAN
    /\ export_path \in Paths
    /\ include_images \in BOOLEAN
    /\ encoder = "none"
    /\ first_run = <<>>

\* export_questions called again once the first run has ended
ExportAgain ==
    /\ w_pc \in {"finished", "failed"}
    /\ first_run = <<>>
    /\ first_run' = << [path |-> export_path, include_images |-> include_images,
                        result |-> w_pc, output |-> output] >>
    /\ w_pc' = "ready"
    /\ idx' = 0
    /\ output' = <<>>
    /\ emitted' = <<>>
    /\ encoder' = "none"
    /\ export_path' \in Paths
    /\ include_images' \in BOOLEAN
    /\ UNCHANGED <<w_questions, export_format, numbering, dest_writable,
                   reportlab_ok, parseVars, rnVars, guiVars, sessVars, scaleVars, cacheVars, pdfVars>>

ExportTwiceInit ==
    /\ TwiceInit
    /\ ParseIdle
    /\ RnIdle
    /\ GuiIdle
    /\ SessionIdle
    /\ ScaleIdle
    /\ CacheIdle
    /\ PdfIdle

ExportTwiceNext == RunBegin \/ EncodeQuestion \/ RunEnd \/ ExportAgain

SpecExportTwice == ExportTwiceInit /\ [][ExportTwiceNext]_vars

\* both runs have finished
BothFinished ==
    /\ first_run # <<>>
    /\ first_run[1].result = "finished"
    /\ w_pc = "finished"

----------------------------------------------------------------------------
(* QuestionApp.export_questions and the threads it starts                  *)
(*                                                                         *)
(* A worker is "started" (QThread.start() called, run() not yet entered),  *)
(* "running" (inside run(), before its terminal signal) or "terminated".   *)
(* Its progress dialog is window-modal: while it is "open" the main window *)
(* takes no input.  The dialog closes itself when its value reaches the    *)
(* maximum, 100, and the user can cancel it; nothing is connected to its   *)
(* canceled signal.                                                        *)

\* sizes of the lists exported from the main window
GuiSizes == {1, 2}

\* worker w is inside run(): its encoder is at work on w.path
Encoding(w) == w.state = "running"

\* the main window takes input: no modal dialog or message box is open
InputEnabled ==
    /\ app = "running"
    /\ msgboxes = 0
    /\ \A j \in 1..Len(workers) : workers[j].dlg # "open"

\* export_questions(questions, file_path, ...): a new dialog, a new worker
\* bound to self.export_worker, and its start().  The wrapper of a worker
\* replaced before its run() was entered is collected with its thread alive:
\* the process aborts or the thread runs on.
export_questions ==
    /\ InputEnabled
    /\ Len(workers) < MaxExports
    /\ \E path \in Paths, n \in GuiSizes :
          workers' = Append(workers, [path |-> path, n |-> n, k |-> 0,
                                      state |-> "started", dlg |-> "open",
                                      value |-> 0])
    /\ export_worker' = Len(workers) + 1
    /\ \/ app' = app
       \/ /\ export_worker # 0
          /\ workers[export_worker].state = "started"
          /\ app' = "crashed"
    /\ UNCHANGED <<queue, msgboxes, parseVars, rnVars, workerVars, sessVars, scaleVars, cacheVars, pdfVars>>

\* the user cancels or closes the progress dialog of worker j
CancelProgressDialog ==
    /\ app = "running"
    /\ msgboxes = 0
    /\ \E j \in 1..Len(workers) :
          /\ workers[j].dlg = "open"
          /\ workers' = [workers EXCEPT ![j].dlg = "cancelled"]
    /\ UNCHANGED <<app, export_worker, queue, msgboxes, parseVars, rnVars, workerVars, sessVars, scaleVars, cacheVars, pdfVars>>

\* the thread of worker j enters run()
WorkerRunBegin ==
    /\ app = "running"
    /\ \E j \in 1..Len(workers) :
          /\ workers[j].state = "started"
          /\ workers' = [workers EXCEPT ![j].state = "running"]
    /\ UNCHANGED <<app, export_worker, queue, msgboxes, parseVars, rnVars, workerVars, sessVars, scaleVars, cacheVars, pdfVars>>

\* worker j processes its next question and emits progress
WorkerProgress ==
    /\ app = "running"
    /\ \E j \in 1..Len(workers) :
          /\ workers[j].state = "running"
          /\ workers[j].k < workers[j].n
          /\ workers' = [workers EXCEPT ![j].k = @ + 1]
          /\ queue' = Append(queue, [worker |-> j, sig |-> "progress",
                                     val |-> progress_value(workers[j].k + 1,
                                                            workers[j].n)])
    /\ UNCHANGED <<app, export_worker, msgboxes, parseVars, rnVars, workerVars, sessVars, scaleVars, cacheVars, pdfVars>>

\* worker j finishes writing (or fails to) and emits its terminal signal.
\* The wrapper of a worker no longer bound to self.export_worker is collected
\* when run() returns, before Qt has marked the thread finished: the process
\* aborts or goes on.
WorkerTerminal ==
    /\ app = "running"
    /\ \E j \in 1..Len(workers) :
          /\ workers[j].state = "running"
          /\ workers[j].k = workers[j].n
          /\ workers' = [workers EXCEPT ![j].state = "terminated"]
          /\ \E sig \in {"finished", "error"} :
                queue' = Append(queue, [worker |-> j, sig |-> sig, val |-> 0])
          /\ \/ app' = app
             \/ /\ j # export_worker
                /\ app' = "crashed"
    /\ UNCHANGED <<export_worker, msgboxes, parseVars, rnVars, workerVars, sessVars, scaleVars, cacheVars, pdfVars>>

\* what progress.setValue(v) does to a dialog
SetValue(w, v, reshown) ==
    IF v = 100 THEN [w EXCEPT !.value = v, !.dlg = "closed"]
    ELSE IF w.dlg = "cancelled" /\ reshown THEN [w EXCEPT !.value = v, !.dlg = "open"]
    ELSE [w EXCEPT !.value = v]

\* the GUI thread delivers the oldest queued signal to its slot: setValue
\* of the worker's dialog, on_export_finished or on_export_error (each opens
\* a modal message box).  A cancelled dialog may show itself again on a
\* later setValue.
DeliverSignal ==
    /\ app = "running"
    /\ queue # <<>>
    /\ LET m == Head(queue)
       IN  IF m.sig = "progress"
           THEN /\ \E reshown \in BOOLEAN :
                      workers' = [workers EXCEPT
                                     ![m.worker] = SetValue(@, m.val, reshown)]
                /\ msgboxes' = msgboxes
           ELSE /\ msgboxes' = msgboxes + 1
                /\ workers' = workers
    /\ queue' = Tail(queue)
    /\ UNCHANGED <<app, export_worker, parseVars, rnVars, workerVars, sessVars, scaleVars, cacheVars, pdfVars>>

\* the user closes the topmost message box
DismissMessage ==
    /\ app = "running"
    /\ msgboxes > 0
    /\ msgboxes' = msgboxes - 1
    /\ UNCHANGED <<app, workers, export_worker, queue, parseVars, rnVars, workerVars, sessVars, scaleVars, cacheVars, pdfVars>>

GuiInit ==
    /\ GuiIdle
    /\ ParseIdle
    /\ RnIdle
    /\ WorkerIdle
    /\ SessionIdle
    /\ ScaleIdle
    /\ CacheIdle
    /\ PdfIdle

GuiNext ==
    \/ export_questions
    \/ CancelProgressDialog
    \/ WorkerRunBegin
    \/ WorkerProgress
    \/ WorkerTerminal
    \/ DeliverSignal
    \/ DismissMessage

SpecGui == GuiInit /\ [][GuiNext]_vars

----------------------------------------------------------------------------
(* The claims about launching exports *)

\* C5: no two ExportWorker runs with the same export_path are both inside
\* run(), between their start and their terminal signal, whatever the user
\* does with the progress dialogs.
C5_NoConcurrentSameDestination ==
    \A j1, j2 \in 1..Len(workers) :
        (j1 # j2 /\ Encoding(workers[j1]) /\ Encoding(workers[j2]))
            => workers[j1].path # workers[j2].path

----------------------------------------------------------------------------
(* The main window: loading a document, selecting and filtering questions, *)
(* and handing the selected questions to one ExportWorker, whose run is    *)
(* the one modelled above.  A handler that ends in a message box is one    *)
(* step: message is the box it showed.                                     *)

QuestionLabel == [text |-> <<"A", "_", "7">>, images |-> <<>>]
QuestionImage == [text |-> <<"x", "\n", "B">>, images |-> <<"ok">>]
QuestionLabelImage == [text |-> <<"a", "_", "7", "\n", "B">>, images |-> <<"bad">>]

\* the files given to load_file: opens is whether Document(file_path)
\* returns, parses whether parse_questions_with_images returns, questions
\* what it returns
Documents ==
    { [path |-> "a", opens |-> TRUE, parses |-> TRUE,
       questions |-> <<QuestionLabel, QuestionImage, QuestionLabelImage>>],
      [path |-> "b", opens |-> TRUE, parses |-> TRUE,
       questions |-> <<QuestionImage>>],
      [path |-> "c", opens |-> FALSE, parses |-> FALSE, questions |-> <<>>],
      [path |-> "d", opens |-> TRUE, parses |-> FALSE, questions |-> <<>>] }

\* create_question_widgets: one unchecked, visible widget per question
NewWidgets(qs) == [k \in 1..Len(qs) |-> [checked |-> FALSE, visible |-> TRUE]]

load_file_ClearFirst(d) ==
    /\ IF d.opens /\ d.parses
       THEN /\ self_questions' = d.questions
            /\ question_widgets' = NewWidgets(d.questions)
            /\ current_file_path' = d.path
            /\ message' = "loaded"
       ELSE /\ question_widgets' = <<>>
            /\ message' = IF d.opens THEN "parse_failed" ELSE "open_failed"
            /\ UNCHANGED <<self_questions, current_file_path>>
    /\ UNCHANGED <<numbering_type, parseVars, rnVars, workerVars, guiVars, scaleVars, cacheVars, pdfVars>>

\* load_file(file_path)
load_file(d) ==
    /\ IF ~d.opens
       THEN /\ message' = "open_failed"
            /\ UNCHANGED <<self_questions, question_widgets, current_file_path>>
       ELSE IF ~d.parses
       THEN /\ message' = "parse_failed"
            /\ UNCHANGED <<self_questions, question_widgets, current_file_path>>
       ELSE /\ self_questions' = d.questions
            /\ question_widgets' = NewWidgets(d.questions)
            /\ current_file_path' = d.path
            /\ message' = "loaded"
    /\ UNCHANGED <<numbering_type, parseVars, rnVars, workerVars, guiVars, scaleVars, cacheVars, pdfVars>>

\* load_file_dialog, or a file dropped on the window
LoadFile == \E d \in Documents : load_file(d)

\* on_question_clicked(index)
on_question_clicked ==
    /\ \E index \in 1..Len(question_widgets) :
          question_widgets' = [question_widgets EXCEPT ![index].checked = ~@]
    /\ UNCHANGED <<self_questions, current_file_path, message, numbering_type,
                   parseVars, rnVars, workerVars, guiVars, scaleVars, cacheVars, pdfVars>>

SetAllChecked(c) == [k \in 1..Len(question_widgets) |->
                        [question_widgets[k] EXCEPT !.checked = c]]

select_all_questions ==
    /\ question_widgets' = SetAllChecked(TRUE)
    /\ UNCHANGED <<self_questions, current_file_path, message, numbering_type,
                   parseVars, rnVars, workerVars, guiVars, scaleVars, cacheVars, pdfVars>>

deselect_all_questions ==
    /\ question_widgets' = SetAllChecked(FALSE)
    /\ UNCHANGED <<self_questions, current_file_path, message, numbering_type,
                   parseVars, rnVars, workerVars, guiVars, scaleVars, cacheVars, pdfVars>>

\* values of random_spin
RandomCounts == {1, 2}

\* random_select: random.sample picks any count of the widgets
random_select ==
    /\ \E count \in RandomCounts :
          IF Len(question_widgets) < count
          THEN /\ message' = "less_than_count"
               /\ question_widgets' = question_widgets
          ELSE /\ message' = message
               /\ \E indices \in SUBSET (1..Len(question_widgets)) :
                     /\ Cardinality(indices) = count
                     /\ question_widgets' =
                           [k \in 1..Len(question_widgets) |->
                               [question_widgets[k] EXCEPT !.checked = (k \in indices)]]
    /\ UNCHANGED <<self_questions, current_file_path, numbering_type,
                   parseVars, rnVars, workerVars, guiVars, scaleVars, cacheVars, pdfVars>>

\* str.lower()
Lower(t) == [k \in 1..Len(t) |-> IF t[k] = "A" THEN "a" ELSE t[k]]

\* sub in t
IsSubstring(sub, t) ==
    \E k \in 0..(Len(t) - Len(sub)) : SubSeq(t, k + 1, k + Len(sub)) = sub

\* texts typed into the search field
SearchTexts == { <<>>, <<"x">>, <<"A", "_">> }

\* filter_questions(text)
filter_questions ==
    /\ \E t \in SearchTexts :
          question_widgets' =
              [k \in 1..Len(question_widgets) |->
                  IF t = <<>>
                  THEN [question_widgets[k] EXCEPT !.visible = TRUE]
                  ELSE IF k <= Len(self_questions)
                  THEN [question_widgets[k] EXCEPT
                           !.visible = IsSubstring(Lower(t), Lower(self_questions[k].text))]
                  ELSE question_widgets[k]]
    /\ UNCHANGED <<self_questions, current_file_path, message, numbering_type,
                   parseVars, rnVars, workerVars, guiVars, scaleVars, cacheVars, pdfVars>>

\* update_numbering_type: the other radio button is chosen
update_numbering_type ==
    /\ numbering_type' = IF numbering_type = "original" THEN "sequential" ELSE "original"
    /\ UNCHANGED <<self_questions, question_widgets, current_file_path, message,
                   parseVars, rnVars, workerVars, guiVars, scaleVars, cacheVars, pdfVars>>

RECURSIVE selected_from_visible(_)
selected_from_visible(k) ==
    IF k > Len(question_widgets) THEN <<>>
    ELSE (IF question_widgets[k].visible THEN <<self_questions[k]>> ELSE <<>>)
         \o selected_from_visible(k + 1)

\* [self.questions[i] for i, widget in enumerate(self.question_widgets)
\*  if widget.is_checked()]
RECURSIVE selected_from(_)
selected_from(k) ==
    IF k > Len(question_widgets) THEN <<>>
    ELSE (IF question_widgets[k].checked THEN <<self_questions[k]>> ELSE <<>>)
         \o selected_from(k + 1)

selected_questions == selected_from(1)

\* the tail shared by save_selected and show_export_dialog: the warning on an
\* empty selection, else export_questions(selected_questions, file_path,
\* fmt, options) constructing the worker.  Cancelling a dialog changes nothing.
StartExport(fmt, include) ==
    /\ w_pc \in {"none", "finished", "failed"}
    /\ IF selected_questions = <<>>
       THEN /\ message' = "no_questions"
            /\ UNCHANGED workerVars
       ELSE /\ message' = message
            /\ w_pc' = "ready"
            /\ w_questions' = selected_questions
            /\ export_format' = fmt
            /\ numbering' = numbering_type
            /\ idx' = 0
            /\ output' = <<>>
            /\ emitted' = <<>>
            /\ dest_writable' = dest_writable
            /\ reportlab_ok' = reportlab_ok
            /\ export_path' \in Paths
            /\ include_images' = include
            /\ encoder' = "none"
            /\ first_run' = first_run
    /\ UNCHANGED <<self_questions, question_widgets, current_file_path,
                   numbering_type, parseVars, rnVars, guiVars, scaleVars, cacheVars, pdfVars>>

save_selected == StartExport("docx", TRUE)

show_export_dialog ==
    \E fmt \in Formats, include \in BOOLEAN : StartExport(fmt, include)

SessionInit ==
    /\ self_questions = <<>>
    /\ question_widgets = <<>>
    /\ current_file_path = "none"
    /\ message = "none"
    /\ numbering_type \in {"original", "sequential"}

AppInit ==
    /\ SessionInit
    /\ WorkerIdle
    /\ ParseIdle
    /\ RnIdle
    /\ GuiIdle
    /\ ScaleIdle
    /\ CacheIdle
    /\ PdfIdle

AppNext ==
    \/ LoadFile
    \/ on_question_clicked
    \/ select_all_questions
    \/ deselect_all_questions
    \/ random_select
    \/ filter_questions
    \/ update_numbering_type
    \/ save_selected
    \/ show_export_dialog
    \/ RunBegin
    \/ EncodeQuestion
    \/ RunEnd

SpecApp == AppInit /\ [][AppNext]_vars

----------------------------------------------------------------------------
(* The main window's claims *)

\* C16: when opening the document or parsing it fails, the failure is
\* reported and the question list, the widgets with their check marks and
\* the current file path stay as they were before the load.
C16_FailedLoadKeepsState ==
    [][\A d \in Documents :
          (~(d.opens /\ d.parses) /\ load_file(d)) =>
              /\ message' \in {"open_failed", "parse_failed"}
              /\ self_questions' = self_questions
              /\ question_widgets' = question_widgets
              /\ current_file_path' = current_file_path]_vars

\* document a was loaded and a question checked, then a load failed in
\* parsing
C16_Witness ==
    /\ message = "parse_failed"
    /\ current_file_path = "a"
    /\ Len(self_questions) = 3
    /\ Len(question_widgets) = 3
    /\ question_widgets[2].checked

\* C17: Question records do not change after parsing: the loaded list
\* changes only by a load, whatever is selected, deselected or filtered, and
\* the list given to an export is the selected questions and stays as given
\* through every step of the run, in every format and numbering mode.
C17_QuestionsImmutable ==
    [][/\ self_questions' # self_questions => \E d \in Documents : load_file(d)
       /\ w_questions' # w_questions =>
             /\ w_pc \notin {"ready", "encoding"}
             /\ w_pc' = "ready"
             /\ w_questions' = selected_questions]_vars

\* a sequential json export renumbered its two questions in the output,
\* and the list was filtered afterwards
C17_Witness ==
    /\ w_pc = "finished"
    /\ export_format = "json"
    /\ numbering = "sequential"
    /\ w_questions = <<QuestionLabel, QuestionLabelImage>>
    /\ output[1][1].text = <<"A", "_", "1">>
    /\ output[2][1].text = <<"a", "_", "2", "\n", "B">>
    /\ self_questions = <<QuestionLabel, QuestionImage, QuestionLabelImage>>
    /\ ~question_widgets[1].visible
    /\ question_widgets[3].checked

\* positions of the checked widgets
Checked == {k \in 1..Len(question_widgets) : question_widgets[k].checked}

\* the j-th checked position in document order
NthChecked(j) == CHOOSE k \in Checked : Cardinality({m \in Checked : m <= k}) = j

\* C27: the list given to a worker is the loaded questions whose widget is
\* checked, in document order, and is never empty; the numbering given is the
\* window's; and in a sequential json export the k-th record has number k
\* and the text renumbered to k, its position in the list exported.
C27_SelectedSubsequence ==
    [][/\ (w_pc # "ready" /\ w_pc' = "ready") =>
             /\ Len(w_questions') = Cardinality(Checked)
             /\ \A j \in 1..Len(w_questions') :
                   w_questions'[j] = self_questions[NthChecked(j)]
             /\ Checked # {}
             /\ numbering' = numbering_type
       /\ w_pc' # "none" => w_questions' # <<>>
       /\ (export_format' = "json" /\ numbering' = "sequential") =>
             \A k \in 1..Len(output') :
                 /\ output'[k][1].number = k
                 /\ output'[k][1].text =
                       re_sub_from(w_questions'[k].text, 1, ToDigits(k), 0)]_vars

\* only the third question of the document was checked: it was exported
\* as number 1
C27_Witness ==
    /\ w_pc = "finished"
    /\ export_format = "json"
    /\ numbering = "sequential"
    /\ Checked = {3}
    /\ self_questions[3] = QuestionLabelImage
    /\ w_questions = <<QuestionLabelImage>>
    /\ output[1][1].number = 1
    /\ output[1][1].text = <<"a", "_", "1", "\n", "B">>

----------------------------------------------------------------------------
(* ImageCache.scale_and_cache_image: the scaling of a decoded image to     *)
(* <<max_width, max_height>>.  A size is <<width, height>>; None is <<>>.  *)

None == <<>>

\* <<max_width, max_height>>: wider than high, higher than wide, square
ScaleBounds == { <<3, 2>>, <<2, 3>>, <<4, 4>> }

\* the size of the image after lines 87-92, None when resize raises.
\* ratio = min(max_width/width, max_height/height) is num/den; for the sizes
\* and bounds of this model int(x * ratio) is the floor of the exact
\* product.  Image.resize raises ValueError for a size with a 0 in it, and
\* the except branch returns None.
scale(size, max_width, max_height) ==
    LET width == size[1]
        height == size[2]
    IN  IF width > max_width \/ height > max_height
        THEN LET by_width == max_width * height <= max_height * width
                 num == IF by_width THEN max_width ELSE max_height
                 den == IF by_width THEN width ELSE height
                 new_size == <<(width * num) \div den, (height * num) \div den>>
             IN  IF new_size[1] < 1 \/ new_size[2] < 1 THEN None ELSE new_size
        ELSE size

\* scale_and_cache_image(img_bytes) on an image not in the cache
ScaleOnce ==
    /\ sc_pc = "ready"
    /\ sc_out' = scale(sc_size, sc_bounds[1], sc_bounds[2])
    /\ sc_pc' = "once"
    /\ UNCHANGED <<sc_size, sc_bounds, sc_out2, parseVars, rnVars, workerVars,
                   guiVars, sessVars, cacheVars, pdfVars>>

\* the same scaling applied to the image the first one returned
ScaleAgain ==
    /\ sc_pc = "once"
    /\ sc_out # None
    /\ sc_out2' = scale(sc_out, sc_bounds[1], sc_bounds[2])
    /\ sc_pc' = "twice"
    /\ UNCHANGED <<sc_size, sc_bounds, sc_out, parseVars, rnVars, workerVars,
                   guiVars, sessVars, cacheVars, pdfVars>>

ScaleInit ==
    /\ sc_pc = "ready"
    /\ sc_size \in (1..MaxDim) \X (1..MaxDim)
    /\ sc_bounds \in ScaleBounds
    /\ sc_out = None
    /\ sc_out2 = None

ScalingInit ==
    /\ ScaleInit
    /\ ParseIdle
    /\ RnIdle
    /\ WorkerIdle
    /\ GuiIdle
    /\ SessionIdle
    /\ CacheIdle
    /\ PdfIdle

ScalingNext == ScaleOnce \/ ScaleAgain

SpecScale == ScalingInit /\ [][ScalingNext]_vars

\* C20: scaling to the bounds returns an image, neither dimension of which
\* exceeds the original's; an image within both bounds keeps its size; and
\* scaling the result again leaves its size as it is.
C20_ScaleIdempotent ==
    /\ sc_pc \in {"once", "twice"} =>
          /\ sc_out # None
          /\ sc_out[1] <= sc_size[1]
          /\ sc_out[2] <= sc_size[2]
          /\ (sc_size[1] <= sc_bounds[1] /\ sc_size[2] <= sc_bounds[2])
                => sc_out = sc_size
    /\ sc_pc = "twice" => sc_out2 = sc_out

----------------------------------------------------------------------------
(* ExportWorker.export_to_pdf: where on its page each thing is drawn.      *)
(* Lengths are in tenths of a point, y grows upwards from the lower    *)
(* edge of the page.  The lines, images and questions are chosen as the    *)
(* loops reach them.                                                       *)

\* most empty lines in a row
MaxBlankRun == 3

\* reportlab's A4 (210 mm by 297 mm) and cm, at 72 points to the inch
width == 5953
height == 8419
cm == 283

left_margin == 3 * cm
right_margin == 1 * cm
top_margin == 1 * cm
bottom_margin == 1 * cm

available_width == width - left_margin - right_margin
available_height == height - top_margin - bottom_margin

\* int(int(11.69 * 72) * 0.25), in pixels
MAX_HEIGHT_PIXELS == 210

\* the images of a question: what Image.open reads from the bytes (None
\* when it raises) and whether img.save(format='PNG') can write the mode
PdfImages ==
    { [size |-> <<100, 100>>, mode |-> "RGB"],
      [size |-> <<300, 400>>, mode |-> "RGB"],
      [size |-> <<2000, 200>>, mode |-> "RGB"],
      [size |-> <<1, 500>>, mode |-> "RGB"],
      [size |-> <<100, 100>>, mode |-> "CMYK"],
      [size |-> None, mode |-> "RGB"] }

\* c.showPage() and y_position = height - top_margin when y_position is
\* under the threshold
new_page_if(y, threshold) ==
    IF y < threshold THEN height - top_margin ELSE y

\* the size after "if img_height > MAX_HEIGHT_PIXELS", None when
\* Image.resize raises for a width of 0; for the sizes of PdfImages
\* int(img_width * scale_factor) is the floor of the exact product
pdf_resize(size) ==
    IF size[2] > MAX_HEIGHT_PIXELS
    THEN LET new_width == (size[1] * MAX_HEIGHT_PIXELS) \div size[2]
         IN  IF new_width < 1 THEN None ELSE <<new_width, MAX_HEIGHT_PIXELS>>
    ELSE size

\* display_height = img_height * min(max_img_width / img_width,
\* max_img_height / img_height, 1.0), with max_img_height half the
\* available height
display_height(size) ==
    LET max_img_width == available_width
        max_img_height == available_height \div 2
        img_width == size[1] * 10
        img_height == size[2] * 10
    IN  IF img_width <= max_img_width /\ img_height <= max_img_height
        THEN img_height
        ELSE IF max_img_width * img_height <= max_img_height * img_width
             THEN (img_height * max_img_width) \div img_width
             ELSE max_img_height

\* the image at y_position does not fit above the bottom margin
image_fits_always(y, h) == TRUE

image_fits(y, h) == ~(y - h < bottom_margin)

\* what c.drawString, c.drawImage or c.line has just put on the page: its
\* kind, its lowest y, y_position when its step began, the room it takes
\* below y_position, and whether the step started a new page
Drawn(kind, low, before, extent, new_page) ==
    [kind |-> kind, low |-> low, before |-> before, extent |-> extent,
     new_page |-> new_page]

\* top of "for idx, question in enumerate(self.questions)"
PdfQuestionStart ==
    /\ pdf_pc = "question"
    /\ y_position' = new_page_if(y_position, bottom_margin + 100 * 10)
    /\ pdf_pc' = "text"
    /\ part_lines' = "fresh"
    /\ UNCHANGED <<blank_run, drawn, parseVars, rnVars, workerVars, guiVars,
                   sessVars, scaleVars, cacheVars>>

\* "for line in lines", a line with something on it
PdfTextLine ==
    /\ pdf_pc = "text"
    /\ LET y == new_page_if(y_position, bottom_margin + 20 * 10)
       IN  /\ drawn' = Drawn("line", y - 15 * 10, y_position, 15 * 10,
                             y # y_position)
           /\ y_position' = y - 15 * 10
    /\ part_lines' = "has_line"
    /\ blank_run' = 0
    /\ UNCHANGED <<pdf_pc, parseVars, rnVars, workerVars, guiVars, sessVars,
                   scaleVars, cacheVars>>

\* "for line in lines", an empty line
PdfEmptyLine ==
    /\ pdf_pc = "text"
    /\ blank_run < MaxBlankRun
    /\ y_position' = y_position - 10 * 10
    /\ blank_run' = blank_run + 1
    /\ part_lines' = IF part_lines = "has_line" THEN "has_line"
                     ELSE "blank_only"
    /\ UNCHANGED <<pdf_pc, drawn, parseVars, rnVars, workerVars, guiVars,
                   sessVars, scaleVars, cacheVars>>

\* the text part is over: it had no line at all, or a line with something
\* on it ("if text_part.strip()" skips a part of empty lines only)
PartOver == part_lines \in {"fresh", "has_line"}

\* "if i < len(images)": the image after the text part, or its placeholder
\* when the try block raised
PdfImage ==
    /\ pdf_pc = "text"
    /\ PartOver
    /\ \E img \in PdfImages :
          LET y1 == new_page_if(y_position, bottom_margin + 150 * 10)
              size == IF img.size = None THEN None ELSE pdf_resize(img.size)
          IN  IF size = None
              THEN /\ drawn' = Drawn("placeholder", y1 - 20 * 10, y_position,
                                     20 * 10, y1 # y_position)
                   /\ y_position' = y1 - 30 * 10
              ELSE LET h == display_height(size)
                       y2 == IF image_fits(y1, h) THEN y1
                             ELSE height - top_margin
                       new_page == y1 # y_position \/ y2 # y1
                   IN  IF img.mode = "CMYK"
                       THEN /\ drawn' = Drawn("placeholder", y2 - 20 * 10,
                                              y_position, 20 * 10, new_page)
                            /\ y_position' = y2 - 30 * 10
                       ELSE /\ drawn' = Drawn("image", y2 - h, y_position, h,
                                              new_page)
                            /\ y_position' = y2 - h - 20 * 10
    /\ part_lines' = "fresh"
    /\ blank_run' = 0
    /\ UNCHANGED <<pdf_pc, parseVars, rnVars, workerVars, guiVars, sessVars,
                   scaleVars, cacheVars>>

\* the parts of the question are over: the separator unless the question
\* is the last one, and c.save() after the last one
PdfQuestionEnd ==
    /\ pdf_pc = "text"
    /\ PartOver
    /\ \E last \in BOOLEAN :
          IF last
          THEN /\ pdf_pc' = "saved"
               /\ UNCHANGED <<y_position, drawn>>
          ELSE LET y == new_page_if(y_position, bottom_margin + 30 * 10)
               IN  /\ drawn' = Drawn("separator", y - 20 * 10, y_position,
                                     20 * 10, y # y_position)
                   /\ y_position' = y - 40 * 10
                   /\ pdf_pc' = "question"
    /\ blank_run' = 0
    /\ UNCHANGED <<part_lines, parseVars, rnVars, workerVars, guiVars,
                   sessVars, scaleVars, cacheVars>>

\* export_to_pdf before its first question
PdfInit ==
    /\ pdf_pc = "question"
    /\ y_position = height - top_margin
    /\ part_lines = "fresh"
    /\ blank_run = 0
    /\ drawn = Drawn("none", height, height, 0, FALSE)

PdfLayoutInit ==
    /\ PdfInit
    /\ ParseIdle
    /\ RnIdle
    /\ WorkerIdle
    /\ GuiIdle
    /\ SessionIdle
    /\ ScaleIdle
    /\ CacheIdle

PdfNext ==
    PdfQuestionStart \/ PdfTextLine \/ PdfEmptyLine \/ PdfImage
        \/ PdfQuestionEnd

SpecPdf == PdfLayoutInit /\ [][PdfNext]_vars

\* C22: whatever export_to_pdf draws - a text line, an image, the
\* placeholder of an image, a separator - lies on or above the bottom
\* margin of its page, and it began a new page whenever the room left
\* under y_position was not enough for it.
C22_NothingBelowBottomMargin ==
    drawn.kind # "none" =>
        /\ drawn.low >= bottom_margin
        /\ drawn.before - drawn.extent < bottom_margin => drawn.new_page

\* an image scaled down to a quarter of the page height did not fit under
\* the text and was drawn at the top of a new page
C22_Witness ==
    /\ drawn.kind = "image"
    /\ drawn.extent = MAX_HEIGHT_PIXELS * 10
    /\ drawn.before - drawn.extent < bottom_margin
    /\ drawn.before >= bottom_margin + 150 * 10
    /\ drawn.new_page
    /\ drawn.low = height - top_margin - MAX_HEIGHT_PIXELS * 10

----------------------------------------------------------------------------
(* ImageCache: self.cache behind the lru_cache of get_scaled_pixmap.       *)
(* A pixmap is <<bytes, width, height>>; a hash that is not a key of       *)
(* self.cache maps to None.                                                *)

\* calls of the cache in one session
MaxCalls == 4

\* maxsize of the lru_cache around get_scaled_pixmap
lru_maxsize == 100

\* image bytes and the size Image.open reads from them, None when it raises
CacheImages == {"p", "q", "bad"}

image_size(img_bytes) ==
    IF img_bytes = "p" THEN <<6, 3>>
    ELSE IF img_bytes = "q" THEN <<2, 2>>
    ELSE None

\* hashlib.md5(img_bytes).hexdigest()
get_image_hash(img_bytes) == <<"md5", img_bytes>>

ImageHashes == { get_image_hash(b) : b \in CacheImages }

\* the body of get_scaled_pixmap
cache_lookup(img_hash) == cache[img_hash]

\* the position of the key in the memo, 0 when it is not there
lru_index(key) ==
    IF \E k \in 1..Len(lru) : lru[k][1] = key
    THEN CHOOSE k \in 1..Len(lru) : lru[k][1] = key
    ELSE 0

Without(seq, k) == SubSeq(seq, 1, k - 1) \o SubSeq(seq, k + 1, Len(seq))

\* get_scaled_pixmap through lru_cache: the value the memo holds for the
\* arguments when it holds one, the body's value otherwise, which the memo
\* then holds, dropping its least recently used entry when full
get_scaled_pixmap(img_hash, max_width, max_height) ==
    LET key == <<img_hash, max_width, max_height>>
        k == lru_index(key)
    IN  IF k > 0
        THEN [value |-> lru[k][2],
              lru |-> Append(Without(lru, k), lru[k])]
        ELSE LET value == cache_lookup(img_hash)
                 added == Append(lru, <<key, value>>)
             IN  [value |-> value,
                  lru |-> IF Len(added) > lru_maxsize THEN Tail(added)
                          ELSE added]

\* what a call of the cache did: the pixmap it returned, whether it decoded
\* and scaled the image, and whether the same bytes and bounds had been
\* scaled and stored since the cache was last cleared
Call(nr, op, ret, decoded, stored_before) ==
    [nr |-> nr, op |-> op, ret |-> ret, decoded |-> decoded,
     stored_before |-> stored_before]

CallNr == IF ic_last = <<>> THEN 0 ELSE ic_last.nr

scale_and_cache_image ==
    /\ CallNr < MaxCalls
    /\ \E img_bytes \in CacheImages, bounds \in ScaleBounds :
          LET img_hash == get_image_hash(img_bytes)
              got == get_scaled_pixmap(img_hash, bounds[1], bounds[2])
              cached == got.value
              before == IF <<img_bytes, bounds>> \in processed
                        THEN cache[img_hash] ELSE None
              size == IF image_size(img_bytes) = None THEN None
                      ELSE scale(image_size(img_bytes), bounds[1], bounds[2])
          IN  /\ lru' = got.lru
              /\ IF cached # None
                 THEN /\ ic_last' = Call(CallNr + 1, "scale_and_cache_image",
                                         cached, FALSE, before)
                      /\ UNCHANGED <<cache, hash_cache, processed>>
                 ELSE IF size = None
                 THEN /\ ic_last' = Call(CallNr + 1, "scale_and_cache_image",
                                         None, TRUE, before)
                      /\ UNCHANGED <<cache, hash_cache, processed>>
                 ELSE LET pixmap == <<img_bytes, size[1], size[2]>>
                      IN  /\ cache' = [cache EXCEPT ![img_hash] = pixmap]
                          /\ hash_cache' = hash_cache \cup {img_hash}
                          /\ processed' =
                                { c \in processed : c[1] # img_bytes }
                                    \cup {<<img_bytes, bounds>>}
                          /\ ic_last' = Call(CallNr + 1,
                                             "scale_and_cache_image", pixmap,
                                             TRUE, before)
    /\ UNCHANGED <<parseVars, rnVars, workerVars, guiVars, sessVars,
                   scaleVars, pdfVars>>

clear_cache ==
    /\ CallNr < MaxCalls
    /\ cache' = [h \in ImageHashes |-> None]
    /\ hash_cache' = {}
    /\ lru' = <<>>
    /\ processed' = {}
    /\ ic_last' = Call(CallNr + 1, "clear_cache", None, FALSE, None)
    /\ UNCHANGED <<parseVars, rnVars, workerVars, guiVars, sessVars,
                   scaleVars, pdfVars>>

\* ImageCache.__init__
CacheInit ==
    /\ cache = [h \in ImageHashes |-> None]
    /\ hash_cache = {}
    /\ lru = <<>>
    /\ processed = {}
    /\ ic_last = <<>>

ImageCacheInit ==
    /\ CacheInit
    /\ ParseIdle
    /\ RnIdle
    /\ WorkerIdle
    /\ GuiIdle
    /\ SessionIdle
    /\ ScaleIdle
    /\ PdfIdle

ImageCacheNext == scale_and_cache_image \/ clear_cache

SpecCache == ImageCacheInit /\ [][ImageCacheNext]_vars

\* C30: a call of scale_and_cache_image with bytes and bounds that were
\* scaled and stored since the cache was last cleared returns the stored
\* pixmap without decoding and scaling the image again, and clear_cache
\* leaves no entry behind.
C30_SecondCallFromCache ==
    ic_last # <<>> =>
        /\ (ic_last.op = "scale_and_cache_image"
              /\ ic_last.stored_before # None) =>
                 /\ ic_last.ret = ic_last.stored_before
                 /\ ~ic_last.decoded
        /\ ic_last.op = "clear_cache" =>
              /\ lru = <<>>
              /\ hash_cache = {}
              /\ \A h \in ImageHashes : cache[h] = None

====
